---- MODULE Spec2Model ----
(***************************************************************************)
(* The two scripts of the repository, parse-blueprint.js and               *)
(* save-blueprint.js, as one state machine.  A run executes one of the     *)
(* two scripts from its first statement to its last; pc is the statement   *)
(* the script is about to execute.                                         *)
(*                                                                         *)
(* Parser.ParseBlueprintFiles and Parser.WriteBlueprintFiles belong to the *)
(* package @etothepii/satisfactory-file-parser, whose code is not part of  *)
(* the repository.  The model gives them no behaviour of their own: a call *)
(* returns any value of its result type or throws, and, while             *)
(* WriteBlueprintFiles is running, it may invoke either callback the       *)
(* script handed to it, any number of times, in any order, with any bytes. *)
(* The only thing taken from the call site is that the script uses the     *)
(* returned value in the very next statement, without awaiting anything:   *)
(* the callbacks are the ones that run between the call and its return.    *)
(***************************************************************************)
EXTENDS Integers, Sequences, FiniteSets, TLC

\* ---------------------------------------------------------------- bounds
MaxLen == 1          \* bytes in one header, chunk or config buffer
MaxChunks == 2       \* body-sink invocations in one call
MaxHeaderCalls == 2  \* header-sink invocations in one call
MaxObjects == 1      \* objects in a Document

\* ---------------------------------------------------------------- values
\* A variable or a file either has no value yet or holds one: <<>> or <<value>>.
Some(value) == <<value>>
ValueOf(holder) == holder[1]
Undefined == <<>>            \* a JavaScript variable that was never assigned
NoFile == <<>>               \* an output file this run has not written

ByteValues == {0, 255}

RECURSIVE SeqsUpTo(_, _)
SeqsUpTo(S, n) ==
  IF n = 0 THEN {<<>>}
  ELSE LET shorter == SeqsUpTo(S, n - 1)
       IN  shorter \cup {Append(s, x) : s \in {t \in shorter : Len(t) = n - 1}, x \in S}

ByteArrays == SeqsUpTo(ByteValues, MaxLen)

Documents == [name : {"Framed Glass Container"}, objects : 0..MaxObjects]

VARIABLES
  script,              \* which script this run executes
  pc,                  \* the statement about to execute
  file,                \* parse-blueprint.js:5 (bytes), save-blueprint.js:5 (text)
  configFile,          \* parse-blueprint.js:6
  blueprint,           \* parse-blueprint.js:10, save-blueprint.js:7
  mainFileHeader,      \* save-blueprint.js:9
  mainFileBodyChunks,  \* save-blueprint.js:10
  summary,             \* save-blueprint.js:11
  jsonFile,            \* parse-blueprint.js:17, the file as written by this run
  sbpFile,             \* save-blueprint.js:29, the file as written by this run
  cfgFile,             \* save-blueprint.js:35, the file as written by this run
  headerCalls,         \* history: arguments of the header-sink invocations
  chunkCalls,          \* history: arguments of the body-sink invocations
  outcome              \* history: how the codec call ended

vars == <<script, pc, file, configFile, blueprint, mainFileHeader,
          mainFileBodyChunks, summary, jsonFile, sbpFile, cfgFile,
          headerCalls, chunkCalls, outcome>>

\* ---------------------------------------------------------------- helpers
\* JSON.stringify(blueprint, null, 2): the text of a Document, as its tokens;
\* a number is written in decimal.
JSONstringify(doc) ==
  <<"{", "\"name\":", doc.name, "\"objects\":", ToString(doc.objects), "}">>

\* JSON text that JSON.parse rejects with a SyntaxError.
Malformed == <<"{">>

IsJson(text) == \E doc \in Documents : JSONstringify(doc) = text

\* JSON.parse(text), for text that is JSON.
JSONparse(text) == CHOOSE doc \in Documents : JSONstringify(doc) = text

JsonTexts == {JSONstringify(d) : d \in Documents} \cup {Malformed}

\* Buffer.concat(list): the elements' bytes, one after the other.
RECURSIVE BufferConcat(_)
BufferConcat(list) ==
  IF list = <<>> THEN <<>> ELSE Head(list) \o BufferConcat(Tail(list))

\* new Uint8Array(source): one element per element of source, each reduced
\* to an unsigned byte.
Uint8Array(source) == [i \in 1..Len(source) |-> source[i] % 256]

\* (header) => { mainFileHeader = header; }
OnHeader(old, header) == header

\* The chunk put at the front of the list instead of the back.
OnChunkUnshift(chunks, chunk) == <<chunk>> \o chunks

\* (chunk) => { mainFileBodyChunks.push(chunk); }
OnChunk(chunks, chunk) == Append(chunks, chunk)

\* [mainFileHeader, ...mainFileBodyChunks]
MainFileParts(header, chunks) == <<header>> \o chunks

\* ---------------------------------------------------------------- Init
Init ==
  /\ script \in {"parse", "save"}
  /\ pc = IF script = "parse" THEN "read_main" ELSE "read_json"
  /\ file = Undefined
  /\ configFile = Undefined
  /\ blueprint = Undefined
  /\ mainFileHeader = Undefined
  /\ mainFileBodyChunks = <<>>
  /\ summary = Undefined
  /\ jsonFile = NoFile
  /\ sbpFile = NoFile
  /\ cfgFile = NoFile
  /\ headerCalls = <<>>
  /\ chunkCalls = <<>>
  /\ outcome = "none"

\* An exception nobody catches ends the script: no later statement runs.
Halt == pc' = "halted"

\* ------------------------------------------------- parse-blueprint.js
\* const file = new Uint8Array(fs.readFileSync(".../New Blueprint.sbp")).buffer
ParseReadMain ==
  /\ script = "parse" /\ pc = "read_main"
  /\ \/ \E bytes \in ByteArrays : file' = Some(Uint8Array(bytes)) /\ pc' = "read_cfg"
     \/ Halt /\ UNCHANGED file
  /\ UNCHANGED <<script, configFile, blueprint, mainFileHeader, mainFileBodyChunks,
                 summary, jsonFile, sbpFile, cfgFile, headerCalls, chunkCalls, outcome>>

\* const configFile = new Uint8Array(fs.readFileSync(".../New Blueprint.sbpcfg")).buffer
ParseReadConfig ==
  /\ script = "parse" /\ pc = "read_cfg"
  /\ \/ \E bytes \in ByteArrays : configFile' = Some(Uint8Array(bytes)) /\ pc' = "decode"
     \/ Halt /\ UNCHANGED configFile
  /\ UNCHANGED <<script, file, blueprint, mainFileHeader, mainFileBodyChunks,
                 summary, jsonFile, sbpFile, cfgFile, headerCalls, chunkCalls, outcome>>

\* const blueprint = Parser.ParseBlueprintFiles(name, file, configFile): returns
ParseBlueprintFilesReturns ==
  /\ script = "parse" /\ pc = "decode"
  /\ \E doc \in Documents : blueprint' = Some(doc)
  /\ outcome' = "returned"
  /\ pc' = "write_json"
  /\ UNCHANGED <<script, file, configFile, mainFileHeader, mainFileBodyChunks,
                 summary, jsonFile, sbpFile, cfgFile, headerCalls, chunkCalls>>

\* const blueprint = Parser.ParseBlueprintFiles(name, file, configFile): throws
ParseBlueprintFilesThrows ==
  /\ script = "parse" /\ pc = "decode"
  /\ outcome' = "threw"
  /\ Halt
  /\ UNCHANGED <<script, file, configFile, blueprint, mainFileHeader, mainFileBodyChunks,
                 summary, jsonFile, sbpFile, cfgFile, headerCalls, chunkCalls>>

\* fs.writeFileSync("New Blueprint.json", JSON.stringify(blueprint, null, 2))
ParseWriteJson ==
  /\ script = "parse" /\ pc = "write_json"
  /\ \/ jsonFile' = Some(JSONstringify(ValueOf(blueprint))) /\ pc' = "log"
     \/ Halt /\ UNCHANGED jsonFile
  /\ UNCHANGED <<script, file, configFile, blueprint, mainFileHeader, mainFileBodyChunks,
                 summary, sbpFile, cfgFile, headerCalls, chunkCalls, outcome>>

\* console.log(...); console.log(...)
ParseLog ==
  /\ script = "parse" /\ pc = "log"
  /\ pc' = "done"
  /\ UNCHANGED <<script, file, configFile, blueprint, mainFileHeader, mainFileBodyChunks,
                 summary, jsonFile, sbpFile, cfgFile, headerCalls, chunkCalls, outcome>>

\* -------------------------------------------------- save-blueprint.js
\* const file = fs.readFileSync("New Blueprint 2.json")
SaveReadJson ==
  /\ script = "save" /\ pc = "read_json"
  /\ \/ \E text \in JsonTexts : file' = Some(text) /\ pc' = "json_parse"
     \/ Halt /\ UNCHANGED file
  /\ UNCHANGED <<script, configFile, blueprint, mainFileHeader, mainFileBodyChunks,
                 summary, jsonFile, sbpFile, cfgFile, headerCalls, chunkCalls, outcome>>

\* const blueprint = JSON.parse(file.toString())
SaveJsonParse ==
  /\ script = "save" /\ pc = "json_parse"
  /\ IF IsJson(ValueOf(file))
       THEN blueprint' = Some(JSONparse(ValueOf(file))) /\ pc' = "in_call"
       ELSE Halt /\ UNCHANGED blueprint
  /\ UNCHANGED <<script, file, configFile, mainFileHeader, mainFileBodyChunks,
                 summary, jsonFile, sbpFile, cfgFile, headerCalls, chunkCalls, outcome>>

\* WriteBlueprintFiles invokes its second argument
SaveHeaderCallback ==
  /\ script = "save" /\ pc = "in_call"
  /\ Len(headerCalls) < MaxHeaderCalls
  /\ \E header \in ByteArrays :
       /\ mainFileHeader' = Some(OnHeader(mainFileHeader, header))
       /\ headerCalls' = Append(headerCalls, header)
  /\ UNCHANGED <<script, pc, file, configFile, blueprint, mainFileBodyChunks,
                 summary, jsonFile, sbpFile, cfgFile, chunkCalls, outcome>>

\* WriteBlueprintFiles invokes its third argument
SaveChunkCallback ==
  /\ script = "save" /\ pc = "in_call"
  /\ Len(chunkCalls) < MaxChunks
  /\ \E chunk \in ByteArrays :
       /\ mainFileBodyChunks' = OnChunk(mainFileBodyChunks, chunk)
       /\ chunkCalls' = Append(chunkCalls, chunk)
  /\ UNCHANGED <<script, pc, file, configFile, blueprint, mainFileHeader,
                 summary, jsonFile, sbpFile, cfgFile, headerCalls, outcome>>

\* const summary = Parser.WriteBlueprintFiles(...): returns
WriteBlueprintFilesReturns ==
  /\ script = "save" /\ pc = "in_call"
  /\ \E config \in ByteArrays : summary' = Some([configFileBinary |-> config])
  /\ outcome' = "returned"
  /\ pc' = "write_sbp"
  /\ UNCHANGED <<script, file, configFile, blueprint, mainFileHeader, mainFileBodyChunks,
                 jsonFile, sbpFile, cfgFile, headerCalls, chunkCalls>>

\* The exception caught and dropped: the script carries on with summary unset.
WriteBlueprintFilesThrowsSwallowed ==
  /\ script = "save" /\ pc = "in_call"
  /\ outcome' = "threw"
  /\ pc' = "write_sbp"
  /\ UNCHANGED <<script, file, configFile, blueprint, mainFileHeader, mainFileBodyChunks,
                 summary, jsonFile, sbpFile, cfgFile, headerCalls, chunkCalls>>

\* const summary = Parser.WriteBlueprintFiles(...): throws
WriteBlueprintFilesThrows ==
  /\ script = "save" /\ pc = "in_call"
  /\ outcome' = "threw"
  /\ Halt
  /\ UNCHANGED <<script, file, configFile, blueprint, mainFileHeader, mainFileBodyChunks,
                 summary, jsonFile, sbpFile, cfgFile, headerCalls, chunkCalls>>

\* fs.writeFileSync(out_path, new Uint8Array(Buffer.concat([mainFileHeader, ...chunks])))
\* Buffer.concat throws a TypeError on a list element that is not a byte array.
SaveWriteSbp ==
  /\ script = "save" /\ pc = "write_sbp"
  /\ \/ /\ mainFileHeader # Undefined
        /\ sbpFile' = Some(Uint8Array(BufferConcat(
                        MainFileParts(ValueOf(mainFileHeader), mainFileBodyChunks))))
        /\ pc' = "write_cfg"
     \/ Halt /\ UNCHANGED sbpFile
  /\ UNCHANGED <<script, file, configFile, blueprint, mainFileHeader, mainFileBodyChunks,
                 summary, jsonFile, cfgFile, headerCalls, chunkCalls, outcome>>

\* fs.writeFileSync(out_path_cfg, new Uint8Array(summary.configFileBinary))
\* Reading a property of undefined throws a TypeError.
SaveWriteCfg ==
  /\ script = "save" /\ pc = "write_cfg"
  /\ \/ /\ summary # Undefined
        /\ cfgFile' = Some(Uint8Array(ValueOf(summary).configFileBinary))
        /\ pc' = "done"
     \/ Halt /\ UNCHANGED cfgFile
  /\ UNCHANGED <<script, file, configFile, blueprint, mainFileHeader, mainFileBodyChunks,
                 summary, jsonFile, sbpFile, headerCalls, chunkCalls, outcome>>

Next ==
  \/ ParseReadMain
  \/ ParseReadConfig
  \/ ParseBlueprintFilesReturns
  \/ ParseBlueprintFilesThrows
  \/ ParseWriteJson
  \/ ParseLog
  \/ SaveReadJson
  \/ SaveJsonParse
  \/ SaveHeaderCallback
  \/ SaveChunkCallback
  \/ WriteBlueprintFilesReturns
  \/ WriteBlueprintFilesThrows
  \/ SaveWriteSbp
  \/ SaveWriteCfg

Spec == Init /\ [][Next]_vars

\* ---------------------------------------------------------------- claims
Last(calls) == calls[Len(calls)]

\* C1: the bytes save-blueprint.js writes to the .sbp file are the header bytes
\* handed to the header sink (the most recent ones, had the sink been invoked
\* more than once) followed by every chunk handed to the body sink, in the
\* order of the invocations, none missing, duplicated or moved; the bytes it
\* writes to the .sbpcfg file are the configFileBinary of the value the call
\* returned.
C1_WrittenBytesAreTheEmittedBytes ==
  /\ sbpFile # NoFile =>
       /\ headerCalls # <<>>
       /\ ValueOf(sbpFile) = Last(headerCalls) \o BufferConcat(chunkCalls)
  /\ cfgFile # NoFile =>
       /\ summary # Undefined
       /\ ValueOf(cfgFile) = ValueOf(summary).configFileBinary

\* Both files written after a call that emitted one non-empty header and two
\* different chunks.
C1_Witness ==
  /\ sbpFile # NoFile
  /\ cfgFile # NoFile
  /\ Len(headerCalls) = 1
  /\ headerCalls[1] # <<>>
  /\ Len(chunkCalls) = 2
  /\ chunkCalls[1] # chunkCalls[2]
  /\ chunkCalls[1] # <<>>
  /\ chunkCalls[2] # <<>>

\* C10: a codec call that throws ends the script with no output file written;
\* the JSON file is written only after ParseBlueprintFiles returned, the .sbp
\* and .sbpcfg files only after WriteBlueprintFiles returned, and the .sbpcfg
\* file only once the .sbp file has been written.
C10_NoOutputUnlessCodecReturned ==
  /\ outcome = "threw" =>
       /\ pc = "halted"
       /\ jsonFile = NoFile
       /\ sbpFile = NoFile
       /\ cfgFile = NoFile
  /\ jsonFile # NoFile => script = "parse" /\ outcome = "returned"
  /\ sbpFile # NoFile => script = "save" /\ outcome = "returned"
  /\ cfgFile # NoFile => sbpFile # NoFile

\* WriteBlueprintFiles threw after it had handed over a header and a chunk.
C10_Witness ==
  /\ script = "save"
  /\ outcome = "threw"
  /\ pc = "halted"
  /\ headerCalls # <<>>
  /\ chunkCalls # <<>>
  /\ sbpFile = NoFile

====
